---- MODULE Spec2Model ----
(***************************************************************************)
(* Well log documents of well-log-viewer-dash: the depositional            *)
(* environment resolver, the log document builder and the multi-well       *)
(* callback of example_well_log_synced.py.                                 *)
(*                                                                         *)
(* A label of the depositional-environment taxonomy is a sequence of       *)
(* one-character strings, so that the regular-expression search of         *)
(* pandas' str.contains is computed character by character.                *)
(***************************************************************************)
EXTENDS Integers, Sequences, FiniteSets, TLC

VARIABLES depenv_df, lithostrat_df, out, events

vars == <<depenv_df, lithostrat_df, out, events>>

-----------------------------------------------------------------------------
(* Bounds *)

MaxLen == 2

MaxRef == 2

MaxRows == 2

MaxSel == 2

MaxEvents == 2

-----------------------------------------------------------------------------
(* Python values *)

\* None, as a column value of a data row and as header.step
None == -1

\* float nan, the minimum or maximum of an empty pandas column
NaN == -2

\* a cell of the optional column "Depositional Environment": a str, or the
\* float nan that read_csv leaves in an empty cell
StrCell(s) == [type |-> "str", str |-> s]

NaNCell == [type |-> "float", str |-> <<>>]

isinstance_str(cell) == cell.type = "str"

Returned(v) == [raised |-> FALSE, exc |-> "", value |-> v]

Raised(e) == [raised |-> TRUE, exc |-> e, value |-> None]

\* IndexError and KeyError are the subclasses of the builtin LookupError
IsLookupError(e) == e \in {"IndexError", "KeyError"}

-----------------------------------------------------------------------------
(* Labels *)

Marine == <<"M", "a", "r", "i", "n", "e">>

marine == <<"m", "a", "r", "i", "n", "e">>

marin == <<"m", "a", "r", "i", "n">>

marine_deposits ==
    <<"m", "a", "r", "i", "n", "e", " ", "d", "e", "p", "o", "s", "i", "t", "s">>

Fluvial == <<"F", "l", "u", "v", "i", "a", "l">>

fluvial == <<"f", "l", "u", "v", "i", "a", "l">>

Alphabet == {"M", "m", ".", "\\"}

RECURSIVE StringsUpTo(_)
StringsUpTo(n) ==
    IF n = 0 THEN {<<>>}
    ELSE LET shorter == StringsUpTo(n - 1)
         IN  shorter \cup {Append(s, c) : s \in {t \in shorter : Len(t) = n - 1}, c \in Alphabet}

\* \d and \D: two patterns that differ only in the case of a letter
backslash_d == <<"\\", "d">>

backslash_D == <<"\\", "D">>

\* \w and \W: a word character and its complement
backslash_w == <<"\\", "w">>

backslash_W == <<"\\", "W">>

\* \a is the BEL control character
backslash_a == <<"\\", "a">>

Ma == <<"M", "a">>

CallLabels ==
    StringsUpTo(MaxLen) \cup {Marine, marine, marin, marine_deposits, Fluvial, fluvial,
                              backslash_d, backslash_D, backslash_w, backslash_W,
                              backslash_a, Ma}

UpperCase ==
    <<"A", "B", "C", "D", "E", "F", "G", "H", "I", "J", "K", "L", "M",
      "N", "O", "P", "Q", "R", "S", "T", "U", "V", "W", "X", "Y", "Z">>

LowerCase ==
    <<"a", "b", "c", "d", "e", "f", "g", "h", "i", "j", "k", "l", "m",
      "n", "o", "p", "q", "r", "s", "t", "u", "v", "w", "x", "y", "z">>

UpperLetters == {UpperCase[i] : i \in 1..26}

AsciiLetters == UpperLetters \cup {LowerCase[i] : i \in 1..26}

\* str.lower of one upper-case letter
LowerOf == [c \in UpperLetters |-> LowerCase[CHOOSE i \in 1..26 : UpperCase[i] = c]]

Digits == {"0", "1", "2", "3", "4", "5", "6", "7", "8", "9"}

\* re.IGNORECASE folds the case of a letter
ToLower(c) == IF c \in UpperLetters THEN LowerOf[c] ELSE c

\* the letters that have a meaning after a backslash; every other ASCII
\* letter after a backslash is a bad escape
EscapeLetters ==
    {"a", "b", "f", "n", "r", "t", "v", "x", "u", "U", "N", "A", "B", "Z",
     "d", "D", "s", "S", "w", "W"}

\* the meaning of the character after a backslash; the escapes \b \B \A \Z
\* \x \u \U \N and the digits are not part of the model
EscapeKind(e) ==
    CASE e = "d" -> "digit"
      [] e = "D" -> "nondigit"
      [] e = "w" -> "word"
      [] e = "W" -> "nonword"
      [] e = "s" -> "space"
      [] e = "S" -> "nonspace"
      [] e \in {"a", "f", "n", "r", "t", "v"} -> "control"
      [] e \in AsciiLetters \ EscapeLetters -> "bad"
      [] e \in {".", "\\", " "} -> "literal"

\* a character of the pattern outside an escape: the wildcard or itself
PlainKind(c) ==
    CASE c = "." -> "any"
      [] c \in AsciiLetters \cup {" "} -> "literal"

\* the parser of re.compile: the tokens of the pattern from position i on;
\* a backslash at the end of the pattern and a bad escape give a "bad" token
RECURSIVE ParseFrom(_, _)
ParseFrom(pat, i) ==
    IF i > Len(pat) THEN <<>>
    ELSE IF pat[i] = "\\"
         THEN IF i = Len(pat)
              THEN <<[kind |-> "bad", ch |-> "\\"]>>
              ELSE <<[kind |-> EscapeKind(pat[i + 1]), ch |-> pat[i + 1]]>>
                       \o ParseFrom(pat, i + 2)
         ELSE <<[kind |-> PlainKind(pat[i]), ch |-> pat[i]]>> \o ParseFrom(pat, i + 1)

\* re.compile(pat): ok = FALSE for a pattern that raises re.error
re_compile(pat) ==
    LET toks == ParseFrom(pat, 1)
    IN  [ok |-> \A k \in 1..Len(toks) : toks[k].kind # "bad", toks |-> toks]

IsWord(tc) == tc \in AsciiLetters \cup Digits \cup {"_"}

IsSpace(tc) == tc = " "

\* one token of the pattern against one character of the text
CharMatches(tok, tc) ==
    CASE tok.kind = "any"      -> TRUE
      [] tok.kind = "literal"  -> ToLower(tok.ch) = ToLower(tc)
      [] tok.kind = "digit"    -> tc \in Digits
      [] tok.kind = "nondigit" -> tc \notin Digits
      [] tok.kind = "word"     -> IsWord(tc)
      [] tok.kind = "nonword"  -> ~IsWord(tc)
      [] tok.kind = "space"    -> IsSpace(tc)
      [] tok.kind = "nonspace" -> ~IsSpace(tc)
      [] tok.kind = "control"  -> FALSE

MatchAt(toks, text, off) == \A k \in 1..Len(toks) : CharMatches(toks[k], text[off + k])

re_search_ignorecase_cs(pat, text) ==
    \E toks \in {ParseFrom(pat, 1)} :
        \E off \in 0..(Len(text) - Len(toks)) :
            \A k \in 1..Len(toks) :
                IF toks[k].kind = "literal" THEN toks[k].ch = text[off + k]
                ELSE CharMatches(toks[k], text[off + k])

re_search_swapped(pat, text) ==
    \E toks \in {ParseFrom(text, 1)} :
        \E off \in 0..(Len(pat) - Len(toks)) : MatchAt(toks, pat, off)

\* re.compile(pat, re.IGNORECASE).search(text): the pattern is the argument
\* of str.contains, the text is the cell of the column
re_search_ignorecase(pat, text) ==
    \E toks \in {ParseFrom(pat, 1)} :
        \E off \in 0..(Len(text) - Len(toks)) : MatchAt(toks, text, off)

-----------------------------------------------------------------------------
(* DepositionalEnvironmentSMDAStandard *)

\* df[mask]: the rows of a frame whose mask is True, in frame order
RECURSIVE BoolIndex(_, _)
BoolIndex(df, mask) ==
    IF df = <<>> THEN <<>>
    ELSE IF mask[1] THEN <<df[1]>> \o BoolIndex(Tail(df), Tail(mask))
         ELSE BoolIndex(Tail(df), Tail(mask))

str_contains(df, dep_env) ==
    [i \in 1..Len(df) |-> re_search_ignorecase(dep_env, df[i].label)]

get_smda_code_null_on_miss(df, dep_env) ==
    IF ~re_compile(dep_env).ok THEN Raised("re.error")
    ELSE LET matches == BoolIndex(df, str_contains(df, dep_env))
         IN  IF Len(matches) = 0 THEN Returned(None) ELSE Returned(matches[1].code)

\* str.contains compiles the pattern first: a pattern that does not compile
\* raises re.error; .values[0] of an empty selection raises IndexError
get_smda_code_for_dep_environment(df, dep_env) ==
    IF ~re_compile(dep_env).ok THEN Raised("re.error")
    ELSE LET matches == BoolIndex(df, str_contains(df, dep_env))
             values  == [i \in 1..Len(matches) |-> matches[i].code]
         IN  IF Len(values) = 0 THEN Raised("IndexError") ELSE Returned(values[1])

\* a dict comprehension over a sequence of (key, value) items: the value of
\* a key is the value of the last item that has the key
LastIndexOf(items, k) ==
    CHOOSE i \in 1..Len(items) :
        /\ items[i][1] = k
        /\ \A j \in (i + 1)..Len(items) : items[j][1] # k

DictOfItems(items) ==
    [k \in {items[i][1] : i \in 1..Len(items)} |-> items[LastIndexOf(items, k)][2]]

\* dict.update: the keys of both, the value of the argument where it has one
DictUpdate(d, other) ==
    [k \in (DOMAIN d) \cup (DOMAIN other) |-> IF k \in DOMAIN other THEN other[k] ELSE d[k]]

get_webviz_well_log_metadata(df) ==
    [DepositionalEnvironment |->
        [attributes |-> <<"color", "code">>,
         objects    |-> DictOfItems([i \in 1..Len(df) |->
                            <<df[i].label, <<<<df[i].R, df[i].G, df[i].B, 255>>, df[i].code>>>>])]]

-----------------------------------------------------------------------------
(* DepositionalEnvironmentsWebviz *)

\* Series.unique(): the distinct values in the order of first appearance
RECURSIVE unique(_)
unique(col) ==
    IF col = <<>> THEN <<>>
    ELSE LET n    == Len(col)
             init == unique(SubSeq(col, 1, n - 1))
         IN  IF \E i \in 1..Len(init) : init[i] = col[n] THEN init ELSE Append(init, col[n])

Column(df, name) == [i \in 1..Len(df) |-> df[i][name]]

\* df[df["unique_wellbore_identifier"] == well_name]
FilterWell(df, well_name) ==
    BoolIndex(df, [i \in 1..Len(df) |-> df[i].unique_wellbore_identifier = well_name])

lithostrat_codes_from_one(df) ==
    LET labels == unique(Column(df, "Lithostrat_unit"))
    IN  DictOfItems([i \in 1..Len(labels) |-> <<labels[i], i>>])

\* enumerate() counts from 0
lithostrat_codes(df) ==
    LET labels == unique(Column(df, "Lithostrat_unit"))
    IN  DictOfItems([i \in 1..Len(labels) |-> <<labels[i], i - 1>>])

wells(df) == unique(Column(df, "unique_wellbore_identifier"))

get_log_curves ==
    <<[name |-> "MD", description |-> "continuous", quantity |-> "m", unit |-> "m",
       valueType |-> "float", dimensions |-> 1],
      [name |-> "DepositionalEnvironment", description |-> "", quantity |-> "DISC",
       unit |-> "DISC", valueType |-> "integer", dimensions |-> 1],
      [name |-> "Lithostrat_unit", description |-> "", quantity |-> "DISC",
       unit |-> "DISC", valueType |-> "integer", dimensions |-> 1]>>

\* Series.min() and Series.max(): nan for a column without rows
RECURSIVE series_min(_)
series_min(col) ==
    IF col = <<>> THEN NaN
    ELSE LET rest == series_min(Tail(col))
         IN  IF rest = NaN \/ col[1] <= rest THEN col[1] ELSE rest

RECURSIVE series_max(_)
series_max(col) ==
    IF col = <<>> THEN NaN
    ELSE LET rest == series_max(Tail(col))
         IN  IF rest = NaN \/ col[1] >= rest THEN col[1] ELSE rest

get_log_header_unfiltered(df, well_name) ==
    [name       |-> "BLOCKING",
     well       |-> well_name,
     startIndex |-> series_min(Column(df, "Depth_top")),
     endIndex   |-> series_max(Column(df, "Depth_base")),
     step       |-> None]

get_log_header(df, well_name) ==
    LET rows == FilterWell(df, well_name)
    IN  [name       |-> "BLOCKING",
         well       |-> well_name,
         startIndex |-> series_min(Column(rows, "Depth_top")),
         endIndex   |-> series_max(Column(rows, "Depth_base")),
         step       |-> None]

LogDataRowPerWell(dep_df, df, row) ==
    LET cell == row.Depositional_Environment
        code == IF isinstance_str(cell)
                THEN get_smda_code_for_dep_environment(dep_df, cell.str)
                ELSE Returned(None)
        own  == FilterWell(df, row.unique_wellbore_identifier)
    IN  IF code.raised THEN code
        ELSE Returned(<<row.Depth_top, code.value, lithostrat_codes(own)[row.Lithostrat_unit]>>)

\* one element of the list of _get_log_data: the row's three values, or the
\* exception of the resolver
LogDataRow(dep_df, df, row) ==
    LET cell == row.Depositional_Environment
        code == IF isinstance_str(cell)
                THEN get_smda_code_for_dep_environment(dep_df, cell.str)
                ELSE Returned(None)
    IN  IF code.raised THEN code
        ELSE Returned(<<row.Depth_top, code.value, lithostrat_codes(df)[row.Lithostrat_unit]>>)

\* the loop of _get_log_data: it ends at the first row whose lookup raises
RECURSIVE LogDataLoop(_, _, _, _)
LogDataLoop(dep_df, df, rows, data) ==
    IF rows = <<>> THEN Returned(data)
    ELSE LET r == LogDataRow(dep_df, df, rows[1])
         IN  IF r.raised THEN r
             ELSE LogDataLoop(dep_df, df, Tail(rows), Append(data, r.value))

get_log_data_unfiltered(dep_df, df, well_name) ==
    LogDataLoop(dep_df, df, df, <<>>)

get_log_data(dep_df, df, well_name) ==
    LogDataLoop(dep_df, df, FilterWell(df, well_name), <<>>)

get_log_metadata_discrete(dep_df, df) ==
    LET codes    == lithostrat_codes(df)
        metadata == [Lithostrat_unit |->
                        [attributes |-> <<"color", "code">>,
                         objects    |-> [label \in DOMAIN codes |->
                                            <<<<0, 0, 0, 255>>, codes[label]>>]]]
    IN  DictUpdate(metadata, get_webviz_well_log_metadata(dep_df))

\* the dict display evaluates header, curves, data, metadata_discrete in
\* that order; an exception of _get_log_data leaves the call
get_webviz_well_log(dep_df, df, well_name) ==
    LET header == get_log_header(df, well_name)
        data   == get_log_data(dep_df, df, well_name)
    IN  IF data.raised THEN data
        ELSE Returned([header            |-> header,
                       curves            |-> get_log_curves,
                       data              |-> data.value,
                       metadata_discrete |-> get_log_metadata_discrete(dep_df, df)])

-----------------------------------------------------------------------------
(* The two tables read at start, and the calls *)

Entry(l, c) == [label |-> l, code |-> c, R |-> 0, G |-> 0, B |-> 255]

\* a table may hold a label twice, under two codes
RefEntries == {Entry(Marine, 7), Entry(Marine, 3), Entry(Fluvial, 3)}

RECURSIVE SeqsOfLen(_, _)
SeqsOfLen(S, n) ==
    IF n = 0 THEN {<<>>}
    ELSE {Append(s, x) : s \in SeqsOfLen(S, n - 1), x \in S}

SeqsUpTo(S, lo, hi) == UNION {SeqsOfLen(S, n) : n \in lo..hi}

RefTables == SeqsUpTo(RefEntries, 1, MaxRef)

DataWells == {"A-1", "B-2"}

\* "C-3" has no row in any dataset
Wells == DataWells \cup {"C-3"}

Units == {"Sand", "Shale"}

Row(w, t, u, c) ==
    [unique_wellbore_identifier |-> w, Depth_top |-> t, Depth_base |-> t + 1,
     Lithostrat_unit |-> u, Depositional_Environment |-> c]

\* a row less its depths
RowKinds ==
    {[well |-> w, unit |-> u, cell |-> c] :
        w \in DataWells, u \in Units, c \in {NaNCell, StrCell(marine)}}

\* the intervals of a table follow one another, downwards or upwards
Profiles == {"ascending", "descending"}

WithDepths(kinds, profile) ==
    [i \in 1..Len(kinds) |->
        Row(kinds[i].well,
            IF profile = "ascending" THEN i ELSE Len(kinds) + 1 - i,
            kinds[i].unit, kinds[i].cell)]

\* well "A-1" with the labels Sand, Shale, Sand, alone and after a row of "B-2"
SandShaleSand ==
    <<Row("A-1", 1, "Sand", NaNCell), Row("A-1", 2, "Shale", StrCell(marine)),
      Row("A-1", 3, "Sand", NaNCell)>>

TwoWells == <<Row("B-2", 1, "Shale", NaNCell)>> \o SandShaleSand

\* a row whose label is "marine deposits"
MarineDeposits == <<Row("A-1", 1, "Sand", StrCell(marine_deposits))>>

\* the rows of two wells interleaved, those of "A-1" not in order of depth
Interleaved ==
    <<Row("B-2", 1, "Shale", NaNCell), Row("A-1", 3, "Sand", NaNCell),
      Row("A-1", 2, "Shale", NaNCell), Row("B-2", 4, "Sand", NaNCell)>>

ScenarioDatasets == {SandShaleSand, TwoWells, MarineDeposits, Interleaved}

Datasets ==
    {WithDepths(kinds, p) : kinds \in SeqsUpTo(RowKinds, 1, MaxRows), p \in Profiles}
        \cup ScenarioDatasets

Selections == SeqsUpTo(Wells, 0, MaxSel)

MarineSeven == <<Entry(Marine, 7)>>

FluvialThree == <<Entry(Fluvial, 3)>>

Template ==
    [name   |-> "Template",
     scale  |-> [primary |-> "MD"],
     tracks |-> <<[plots |-> <<[name |-> "DepositionalEnvironment", type |-> "stacked"]>>],
                  [plots |-> <<[name |-> "Lithostrat_unit", type |-> "stacked",
                                colorTable |-> "Stratigraphy"]>>]>>]

SpacerWidth == 200

RECURSIVE LogsLoopFrom(_, _, _, _)
LogsLoopFrom(dep_df, df, well_names, logs) ==
    IF well_names = <<>> THEN Returned(logs)
    ELSE LET r == get_webviz_well_log(dep_df, df, well_names[1])
         IN  IF r.raised THEN r
             ELSE LogsLoopFrom(dep_df, df, Tail(well_names), Append(logs, r.value))

LogsLoopUnique(dep_df, df, well_names, logs) ==
    LogsLoopFrom(dep_df, df, unique(well_names), logs)

\* the list comprehension of _set_well: it ends at the first well whose
\* document raises
RECURSIVE LogsLoop(_, _, _, _)
LogsLoop(dep_df, df, well_names, logs) ==
    IF well_names = <<>> THEN Returned(logs)
    ELSE LET r == get_webviz_well_log(dep_df, df, well_names[1])
         IN  IF r.raised THEN r
             ELSE LogsLoop(dep_df, df, Tail(well_names), Append(logs, r.value))

set_well_templates_of_layout(well_names) == <<Template>>

set_well_templates(well_names) == [i \in 1..Len(well_names) |-> Template]

set_well_spacers(well_names) == [i \in 1..Len(well_names) |-> SpacerWidth]

set_well_outputs(logs, well_names) ==
    LET spacers == set_well_spacers(well_names)
    IN  [welllogs      |-> logs,
         templates     |-> set_well_templates(well_names),
         spacers       |-> spacers,
         wellDistances |-> spacers]

set_well(dep_df, df, well_names) ==
    LET logs == LogsLoop(dep_df, df, well_names, <<>>)
    IN  IF logs.raised THEN logs
        ELSE Returned(set_well_outputs(logs.value, well_names))

NoCall == [op |-> "none", arg |-> <<>>, res |-> Returned(None)]

IdleEvent == [pc |-> "idle", well_names |-> <<>>, logs |-> <<>>, res |-> Returned(None)]

NoEvents == [e \in 1..MaxEvents |-> IdleEvent]

-----------------------------------------------------------------------------
(* The log document builder, one call at a time *)

Init ==
    /\ depenv_df \in RefTables
    /\ lithostrat_df \in Datasets
    /\ out = NoCall
    /\ events = NoEvents

\* lith.get_webviz_well_log(well_name)
GetWellLog(well_name) ==
    /\ out' = [op  |-> "get_webviz_well_log",
               arg |-> well_name,
               res |-> get_webviz_well_log(depenv_df, lithostrat_df, well_name)]
    /\ UNCHANGED <<depenv_df, lithostrat_df, events>>

Next == \E w \in Wells : GetWellLog(w)

Spec == Init /\ [][Next]_vars

-----------------------------------------------------------------------------
(* The resolver, one call at a time *)

InitResolve ==
    /\ depenv_df \in RefTables
    /\ lithostrat_df = SandShaleSand
    /\ out = NoCall
    /\ events = NoEvents

\* dep.get_smda_code_for_dep_environment(dep_env)
ResolveCode(dep_env) ==
    /\ out' = [op  |-> "get_smda_code_for_dep_environment",
               arg |-> dep_env,
               res |-> get_smda_code_for_dep_environment(depenv_df, dep_env)]
    /\ UNCHANGED <<depenv_df, lithostrat_df, events>>

NextResolve == \E l \in CallLabels : ResolveCode(l)

SpecResolve == InitResolve /\ [][NextResolve]_vars

-----------------------------------------------------------------------------
(* The callback of the synced view, one event at a time *)

InitSync ==
    /\ depenv_df \in RefTables
    /\ lithostrat_df \in ScenarioDatasets
    /\ out = NoCall
    /\ events = NoEvents

\* _set_well(well_names)
SetWell(well_names) ==
    /\ out' = [op  |-> "_set_well",
               arg |-> well_names,
               res |-> set_well(depenv_df, lithostrat_df, well_names)]
    /\ UNCHANGED <<depenv_df, lithostrat_df, events>>

NextSync == \E sel \in Selections : SetWell(sel)

SpecSync == InitSync /\ [][NextSync]_vars

-----------------------------------------------------------------------------
(* The callback of the synced view under concurrent dispatch: the threaded *)
(* server runs each event's call of _set_well in a thread of its own, and  *)
(* the threads interleave between the documents of the list comprehension. *)

EventIds == 1..MaxEvents

\* the Select component offers lith.wells() and sends the chosen options,
\* each at most once, in the order they were chosen
WidgetSelections ==
    {sel \in SeqsUpTo({wells(lithostrat_df)[i] : i \in 1..Len(wells(lithostrat_df))}, 0, MaxSel) :
        \A i, j \in 1..Len(sel) : i # j => sel[i] # sel[j]}

InitConc ==
    /\ depenv_df \in {MarineSeven, FluvialThree}
    /\ lithostrat_df \in {TwoWells, Interleaved}
    /\ out = NoCall
    /\ events = NoEvents

EventLogsShared(evs, e) == evs[1].logs

\* logs is a local of the call: each event has a list of its own
EventLogs(evs, e) == evs[e].logs

\* the server hands the selection of an event to a call of _set_well
Dispatch(e, well_names) ==
    /\ events[e].pc = "idle"
    /\ events' = [events EXCEPT ![e] = [IdleEvent EXCEPT !.pc = "logs",
                                                         !.well_names = well_names]]
    /\ UNCHANGED <<depenv_df, lithostrat_df, out>>

\* one element of the list comprehension: the document of the next well
StepLog(e) ==
    /\ events[e].pc = "logs"
    /\ Len(EventLogs(events, e)) < Len(events[e].well_names)
    /\ LET logs == EventLogs(events, e)
           r    == get_webviz_well_log(depenv_df, lithostrat_df,
                                       events[e].well_names[Len(logs) + 1])
       IN  events' = [events EXCEPT ![e] =
                        IF r.raised THEN [@ EXCEPT !.pc = "done", !.res = r]
                        ELSE [@ EXCEPT !.logs = Append(logs, r.value)]]
    /\ UNCHANGED <<depenv_df, lithostrat_df, out>>

\* templates, spacers and the return statement
Return(e) ==
    /\ events[e].pc = "logs"
    /\ Len(EventLogs(events, e)) = Len(events[e].well_names)
    /\ events' = [events EXCEPT ![e] =
                    [@ EXCEPT !.pc = "done",
                              !.res = Returned(set_well_outputs(EventLogs(events, e),
                                                                events[e].well_names))]]
    /\ UNCHANGED <<depenv_df, lithostrat_df, out>>

\* the response is sent and the thread ends
Respond(e) ==
    /\ events[e].pc = "done"
    /\ events' = [events EXCEPT ![e] = IdleEvent]
    /\ UNCHANGED <<depenv_df, lithostrat_df, out>>

NextConc ==
    \E e \in EventIds :
        \/ \E sel \in WidgetSelections : Dispatch(e, sel)
        \/ StepLog(e)
        \/ Return(e)
        \/ Respond(e)

SpecConc == InitConc /\ [][NextConc]_vars

-----------------------------------------------------------------------------
(* The single-well view with well picks, example_well_log_with_wellpicks.py *)

picks_get_log_curves ==
    <<[name |-> "MD", description |-> "continuous", quantity |-> "m", unit |-> "m",
       valueType |-> "float", dimensions |-> 1],
      [name |-> "DepositionalEnvironment", description |-> "discrete", quantity |-> "DISC",
       unit |-> "DISC", valueType |-> "integer", dimensions |-> 1]>>

\* one element of the list of _get_log_data: depth and environment code
PicksLogDataRow(dep_df, row) ==
    LET cell == row.Depositional_Environment
        code == IF isinstance_str(cell)
                THEN get_smda_code_for_dep_environment(dep_df, cell.str)
                ELSE Returned(None)
    IN  IF code.raised THEN code
        ELSE Returned(<<row.Depth_top, code.value>>)

RECURSIVE PicksLogDataLoop(_, _, _)
PicksLogDataLoop(dep_df, rows, data) ==
    IF rows = <<>> THEN Returned(data)
    ELSE LET r == PicksLogDataRow(dep_df, rows[1])
         IN  IF r.raised THEN r
             ELSE PicksLogDataLoop(dep_df, Tail(rows), Append(data, r.value))

picks_get_webviz_well_log(dep_df, df, well_name) ==
    LET header == get_log_header(df, well_name)
        data   == PicksLogDataLoop(dep_df, FilterWell(df, well_name), <<>>)
    IN  IF data.raised THEN data
        ELSE Returned([header            |-> header,
                       curves            |-> picks_get_log_curves,
                       data              |-> data.value,
                       metadata_discrete |-> get_webviz_well_log_metadata(dep_df)])

get_pick_header(well_name) == [name |-> well_name, well |-> well_name]

get_pick_curves ==
    <<[name |-> "MD", quantity |-> "m", unit |-> "m", valueType |-> "float",
       dimensions |-> 1],
      [name |-> "HORIZON", valueType |-> "string", dimensions |-> 1]>>

get_pick_data(df, well_name) ==
    LET rows == FilterWell(df, well_name)
    IN  [i \in 1..Len(rows) |-> <<rows[i].Depth_top, rows[i].Lithostrat_unit>>]

get_webviz_well_picks(df, well_name) ==
    [header |-> get_pick_header(well_name),
     curves |-> get_pick_curves,
     data   |-> get_pick_data(df, well_name)]

\* the names of the colour tables listed in the wellpick argument
PickColorTables ==
    <<"Physics", "Physics reverse", "Rainbow", "Rainbow reverse", "Colors_set_1",
      "Stratigraphy", "Colors_set_3", "Porosity">>

\* the tuple of _set_well: well_names[0] of an empty list raises IndexError;
\* the picks are those of lith.wells()[0]
picks_set_well(dep_df, df, well_names) ==
    IF Len(well_names) = 0 THEN Raised("IndexError")
    ELSE LET welllog == picks_get_webviz_well_log(dep_df, df, well_names[1])
         IN  IF welllog.raised THEN welllog
             ELSE Returned([welllog  |-> welllog.value,
                            wellpick |-> [wellpick    |-> get_webviz_well_picks(df, wells(df)[1]),
                                          name        |-> "HORIZON",
                                          color       |-> "Stratigraphy",
                                          colorTables |-> PickColorTables]])

InitPicks ==
    /\ depenv_df \in RefTables
    /\ lithostrat_df \in ScenarioDatasets
    /\ out = NoCall
    /\ events = NoEvents

\* _set_well(well_names) of the view with well picks
SetWellPicks(well_names) ==
    /\ out' = [op  |-> "picks._set_well",
               arg |-> well_names,
               res |-> picks_set_well(depenv_df, lithostrat_df, well_names)]
    /\ UNCHANGED <<depenv_df, lithostrat_df, events>>

NextPicks == \E sel \in Selections : SetWellPicks(sel)

SpecPicks == InitPicks /\ [][NextPicks]_vars

-----------------------------------------------------------------------------
(* Properties *)

OutIsResolve == out.op = "get_smda_code_for_dep_environment"

OutIsLog == out.op = "get_webviz_well_log"

OutIsSetWell == out.op = "_set_well"

PlainLabel(l) == \A k \in 1..Len(l) : l[k] \notin {".", "\\"}

\* hay contains needle as a substring, letter case ignored
ContainsIgnoreCase(hay, needle) ==
    \E off \in 0..(Len(hay) - Len(needle)) :
        \A k \in 1..Len(needle) : ToLower(hay[off + k]) = ToLower(needle[k])

SameUpToCase(a, b) ==
    /\ Len(a) = Len(b)
    /\ \A k \in 1..Len(a) : ToLower(a[k]) = ToLower(b[k])

\* the positions of the rows of a well in the source table, and the k-th of them
IdxOfWell(w) ==
    {i \in 1..Len(lithostrat_df) : lithostrat_df[i].unique_wellbore_identifier = w}

NthIdx(I, k) == CHOOSE i \in I : Cardinality({j \in I : j < i}) = k - 1

UnitAt(i) == lithostrat_df[i].Lithostrat_unit

\* the number of distinct labels met among the rows I before the label
RankIn(I, label) ==
    Cardinality({UnitAt(j) : j \in {j \in I : \A k \in I : UnitAt(k) = label => j < k}})

LithObjects(doc) == doc.metadata_discrete.Lithostrat_unit.objects

DepObjects(doc) == doc.metadata_discrete.DepositionalEnvironment.objects

\* C1 as stated: whenever the row label contains the label of a reference
\* entry, letter case ignored, resolveCode returns the code of such an entry
C1_Original ==
    OutIsResolve =>
        ((\E i \in 1..Len(depenv_df) : ContainsIgnoreCase(out.arg, depenv_df[i].label))
            => /\ ~out.res.raised
               /\ \E i \in 1..Len(depenv_df) :
                     /\ ContainsIgnoreCase(out.arg, depenv_df[i].label)
                     /\ out.res.value = depenv_df[i].code)

\* C1 amended: for a row label without regular-expression metacharacters,
\* resolveCode returns the code of the first reference entry, in table
\* order, whose label contains the row label (letter case ignored), and
\* raises IndexError when no reference label contains it
C1_Amended ==
    (OutIsResolve /\ PlainLabel(out.arg)) =>
        LET hits == {i \in 1..Len(depenv_df) :
                        ContainsIgnoreCase(depenv_df[i].label, out.arg)}
        IN  IF hits = {}
            THEN out.res.raised /\ out.res.exc = "IndexError"
            ELSE /\ ~out.res.raised
                 /\ \E i \in hits : /\ \A j \in hits : i <= j
                                    /\ out.res.value = depenv_df[i].code

C1_Witness ==
    /\ OutIsResolve
    /\ depenv_df = MarineSeven
    /\ out.arg = marin
    /\ ~out.res.raised
    /\ out.res.value = 7

\* C2 as stated: the code table of a document numbers the labels of the
\* rows of its own well in the order of first appearance among those rows,
\* and the stratigraphic column holds those numbers
C2_Original ==
    (OutIsLog /\ ~out.res.raised /\ IdxOfWell(out.arg) # {}) =>
        LET I   == IdxOfWell(out.arg)
            doc == out.res.value
        IN  /\ DOMAIN LithObjects(doc) = {UnitAt(i) : i \in I}
            /\ \A l \in DOMAIN LithObjects(doc) : LithObjects(doc)[l][2] = RankIn(I, l)
            /\ Len(doc.data) = Cardinality(I)
            /\ \A k \in 1..Len(doc.data) : doc.data[k][3] = RankIn(I, UnitAt(NthIdx(I, k)))

\* C2 amended: the code table numbers the distinct labels of the whole
\* source table 0, 1, 2, ... in the order of first appearance among all its
\* rows, whatever well they belong to, and the stratigraphic column of a
\* well's document holds, row by row, the numbers of that table
C2_Amended ==
    (OutIsLog /\ ~out.res.raised) =>
        LET I   == IdxOfWell(out.arg)
            All == 1..Len(lithostrat_df)
            doc == out.res.value
        IN  /\ DOMAIN LithObjects(doc) = {UnitAt(i) : i \in All}
            /\ \A l \in DOMAIN LithObjects(doc) : LithObjects(doc)[l][2] = RankIn(All, l)
            /\ Len(doc.data) = Cardinality(I)
            /\ \A k \in 1..Len(doc.data) : doc.data[k][3] = RankIn(All, UnitAt(NthIdx(I, k)))

C2_Witness ==
    /\ OutIsLog
    /\ lithostrat_df = TwoWells
    /\ out.arg = "A-1"
    /\ ~out.res.raised
    /\ [k \in 1..Len(out.res.value.data) |-> out.res.value.data[k][3]] = <<1, 0, 1>>
    /\ LithObjects(out.res.value)["Sand"][2] = 1
    /\ LithObjects(out.res.value)["Shale"][2] = 0

\* C3: in a returned document, every value of a discrete column is None or
\* the code of an entry of the curve's objects map
C3_DiscreteValuesHaveMetadata ==
    (OutIsLog /\ ~out.res.raised) =>
        LET doc == out.res.value
        IN  \A k \in 1..Len(doc.data) :
                /\ \/ doc.data[k][2] = None
                   \/ \E l \in DOMAIN DepObjects(doc) : DepObjects(doc)[l][2] = doc.data[k][2]
                /\ \/ doc.data[k][3] = None
                   \/ \E l \in DOMAIN LithObjects(doc) : LithObjects(doc)[l][2] = doc.data[k][3]

\* C4: the header of the document of a well that has rows holds the least
\* top depth and the greatest base depth of the rows of that well, step None
C4_HeaderBounds ==
    (OutIsLog /\ ~out.res.raised /\ IdxOfWell(out.arg) # {}) =>
        LET I      == IdxOfWell(out.arg)
            header == out.res.value.header
        IN  /\ \E i \in I : header.startIndex = lithostrat_df[i].Depth_top
            /\ \A i \in I : header.startIndex <= lithostrat_df[i].Depth_top
            /\ \E i \in I : header.endIndex = lithostrat_df[i].Depth_base
            /\ \A i \in I : header.endIndex >= lithostrat_df[i].Depth_base
            /\ header.step = None

\* the document of a well whose rows lie between those of another well
C4_Witness ==
    /\ OutIsLog
    /\ ~out.res.raised
    /\ Cardinality(IdxOfWell(out.arg)) > 1
    /\ \E j \in 1..Len(lithostrat_df) :
          /\ j \notin IdxOfWell(out.arg)
          /\ lithostrat_df[j].Depth_top < out.res.value.header.startIndex
    /\ \E j \in 1..Len(lithostrat_df) :
          /\ j \notin IdxOfWell(out.arg)
          /\ lithostrat_df[j].Depth_base > out.res.value.header.endIndex

\* a row of the well whose label is a str that no reference label contains
HasUnresolvable(w) ==
    \E i \in IdxOfWell(w) :
        /\ isinstance_str(lithostrat_df[i].Depositional_Environment)
        /\ \A r \in 1..Len(depenv_df) :
              ~ContainsIgnoreCase(depenv_df[r].label,
                                  lithostrat_df[i].Depositional_Environment.str)

C8_NotFoundError ==
    (OutIsLog /\ IdxOfWell(out.arg) = {}) =>
        /\ out.res.raised
        /\ out.res.exc = "NotFoundError"

\* C5: the empty selection yields four empty sequences and no exception
C5_EmptySelection ==
    (OutIsSetWell /\ out.arg = <<>>) =>
        /\ ~out.res.raised
        /\ out.res.value.welllogs = <<>>
        /\ out.res.value.templates = <<>>
        /\ out.res.value.spacers = <<>>
        /\ out.res.value.wellDistances = <<>>

C5_Witness ==
    /\ OutIsSetWell
    /\ out.arg = <<>>
    /\ ~out.res.raised

\* C6: the callback returns one document per selected identifier, in the
\* order of the selection and with repetitions kept, as many templates and
\* spacers, and wellDistances equal to spacers
C6_OneDocumentPerSelected ==
    (OutIsSetWell /\ ~out.res.raised) =>
        LET n == Len(out.arg)
            v == out.res.value
        IN  /\ Len(v.welllogs) = n
            /\ \A i \in 1..n : v.welllogs[i].header.well = out.arg[i]
            /\ Len(v.templates) = n
            /\ Len(v.spacers) = n
            /\ Len(v.wellDistances) = n
            /\ \A i \in 1..n : v.wellDistances[i] = v.spacers[i]

\* a returned selection that is neither sorted nor free of repetitions
C6_Witness ==
    /\ OutIsSetWell
    /\ ~out.res.raised
    /\ out.arg \in {<<"B-2", "A-1">>, <<"B-2", "B-2">>}
    /\ Len(out.res.value.welllogs) = 2
    /\ Len(out.res.value.welllogs[1].data) > 0

\* C9 as stated: two labels that differ only in letter case resolve alike:
\* both calls raise, or both return the same code
C9_Original ==
    OutIsResolve =>
        \A l \in CallLabels :
            SameUpToCase(out.arg, l) =>
                get_smda_code_for_dep_environment(depenv_df, l) = out.res

\* a label of ASCII letters, blanks and the '.' wildcard only
LettersBlanksDots(l) == \A k \in 1..Len(l) : l[k] \in AsciiLetters \cup {" ", "."}

\* C9 amended: two labels made only of ASCII letters, blanks and the '.'
\* wildcard (no backslash escape) that differ only in letter case resolve
\* alike: both calls raise, or both return the same code
C9_CaseInsensitive ==
    (OutIsResolve /\ LettersBlanksDots(out.arg)) =>
        \A l \in CallLabels :
            (LettersBlanksDots(l) /\ SameUpToCase(out.arg, l)) =>
                get_smda_code_for_dep_environment(depenv_df, l) = out.res

C9_Witness ==
    /\ OutIsResolve
    /\ out.arg = fluvial
    /\ ~out.res.raised
    /\ get_smda_code_for_dep_environment(depenv_df, Fluvial) = out.res

\* C10: the outputs an event returns are those of its own selection run
\* alone, and each document is the one of the selected well at its place
C10_EventIsolation ==
    \A e \in EventIds :
        events[e].pc = "done" =>
            /\ events[e].res = set_well(depenv_df, lithostrat_df, events[e].well_names)
            /\ ~events[e].res.raised =>
                  /\ Len(events[e].res.value.welllogs) = Len(events[e].well_names)
                  /\ \A i \in 1..Len(events[e].well_names) :
                        events[e].res.value.welllogs[i].header.well = events[e].well_names[i]

\* two events of different selections, interleaved, both returned
C10_Witness ==
    /\ events[1].pc = "done"
    /\ events[2].pc = "logs"
    /\ Len(events[2].logs) = 1
    /\ events[2].well_names = <<"B-2", "A-1">>
    /\ events[1].well_names = <<"A-1", "B-2">>
    /\ ~events[1].res.raised

OutIsSetWellPicks == out.op = "picks._set_well"

\* C11: after a selection change of the view with well picks, the log
\* document and the pick document are both those of the selected well, and
\* the pick rows are the [top depth, label] pairs of that well's rows
C11_PicksFollowSelection ==
    (OutIsSetWellPicks /\ ~out.res.raised /\ IdxOfWell(out.arg[1]) # {}) =>
        LET w     == out.arg[1]
            I     == IdxOfWell(w)
            picks == out.res.value.wellpick.wellpick
        IN  /\ out.res.value.welllog.header.well = w
            /\ picks.header.well = w
            /\ Len(picks.data) = Cardinality(I)
            /\ \A k \in 1..Len(picks.data) :
                  picks.data[k] = <<lithostrat_df[NthIdx(I, k)].Depth_top,
                                    UnitAt(NthIdx(I, k))>>

\* the code of the first reference entry whose label contains the label
FirstHitCode(label) ==
    LET hits == {i \in 1..Len(depenv_df) : ContainsIgnoreCase(depenv_df[i].label, label)}
    IN  depenv_df[CHOOSE i \in hits : \A j \in hits : i <= j].code

\* one data row per source row of the well, in source order
DataRowsOfWell ==
    (OutIsLog /\ ~out.res.raised) =>
        LET I    == IdxOfWell(out.arg)
            data == out.res.value.data
        IN  /\ Len(data) = Cardinality(I)
            /\ \A k \in 1..Len(data) :
                  LET row == lithostrat_df[NthIdx(I, k)]
                  IN  /\ Len(data[k]) = 3
                      /\ data[k][1] = row.Depth_top
                      /\ (data[k][2] = None) <=> ~isinstance_str(row.Depositional_Environment)
                      /\ isinstance_str(row.Depositional_Environment) =>
                            data[k][2] = FirstHitCode(row.Depositional_Environment.str)
                      /\ data[k][3] = RankIn(1..Len(lithostrat_df), row.Lithostrat_unit)

\* a well without a single str cell always gets its document
NullRaisesNothing ==
    (OutIsLog /\ \A i \in IdxOfWell(out.arg) :
                    ~isinstance_str(lithostrat_df[i].Depositional_Environment))
        => ~out.res.raised

\* C12: the data of a document has one row per source row of its well, in
\* source order: the row's top depth, None exactly for a cell that is not a
\* str (which raises nothing) and the resolved code for one that is, and the
\* stratigraphic code of the row's label
C12_DataMatrix == DataRowsOfWell /\ NullRaisesNothing

C12_Witness ==
    /\ OutIsLog
    /\ lithostrat_df = TwoWells
    /\ depenv_df = MarineSeven
    /\ out.arg = "A-1"
    /\ ~out.res.raised
    /\ out.res.value.data = <<<<1, None, 1>>, <<2, 7, 0>>, <<3, None, 1>>>>

\* the label of the k-th data row of a document
LabelOfDataRow(doc, k) == UnitAt(NthIdx(IdxOfWell(doc.header.well), k))

\* two documents give a label they share the same code and carry the same
\* Lithostrat_unit map
SameCoding(d1, d2) ==
    /\ LithObjects(d1) = LithObjects(d2)
    /\ \A k1 \in 1..Len(d1.data), k2 \in 1..Len(d2.data) :
          LabelOfDataRow(d1, k1) = LabelOfDataRow(d2, k2) => d1.data[k1][3] = d2.data[k2][3]

\* C13: the code of a stratigraphic label depends neither on the well nor
\* on the selection: the documents of one selection, and the document of
\* any well asked alone, agree on the code of every shared label and carry
\* the same Lithostrat_unit map, which lists every label of the source
\* table under the distinct codes 0..k-1
C13_CodesIndependentOfWell ==
    (OutIsSetWell /\ ~out.res.raised) =>
        LET logs   == out.res.value.welllogs
            labels == {UnitAt(i) : i \in 1..Len(lithostrat_df)}
        IN  \A i \in 1..Len(logs) :
                /\ DOMAIN LithObjects(logs[i]) = labels
                /\ {LithObjects(logs[i])[l][2] : l \in labels} = 0..(Cardinality(labels) - 1)
                /\ \A j \in 1..Len(logs) : SameCoding(logs[i], logs[j])
                /\ \A w \in Wells :
                      LET alone == get_webviz_well_log(depenv_df, lithostrat_df, w)
                      IN  ~alone.raised => SameCoding(logs[i], alone.value)

\* the documents of two wells that share both labels
C13_Witness ==
    /\ OutIsSetWell
    /\ lithostrat_df = Interleaved
    /\ out.arg = <<"B-2", "A-1">>
    /\ ~out.res.raised
    /\ [k \in 1..2 |-> out.res.value.welllogs[1].data[k][3]] = <<0, 1>>
    /\ [k \in 1..2 |-> out.res.value.welllogs[2].data[k][3]] = <<1, 0>>

====
